---- MODULE Spec2Model ----
(***************************************************************************)
(* Model of the OptiBatch batch image converter: the item collection held  *)
(* by the App component, the handlers that mutate it (handleFilesDropped,  *)
(* handleRemoveFile, handleClearAll, handleProcessAll, the settings        *)
(* panel's handleChange) and the per-item pipeline processFile.            *)
(*                                                                         *)
(* Scheduling is the browser's: one handler segment runs to completion,    *)
(* and an async handler can be interleaved with other handlers only at an  *)
(* await.  handleProcessAll therefore appears as three kinds of step: the  *)
(* start of the run (up to the for loop), the head of one loop iteration   *)
(* (the status update and the call of processFile, up to its await) and    *)
(* the continuation after the await (the merge of the result).  pc tells   *)
(* where the run is; user handlers run only where the code can yield       *)
(* (pc = "idle" or pc = "await").                                          *)
(*                                                                         *)
(* Object URLs are natural numbers handed out by createObjectURL; 0 is the *)
(* absent (undefined) URL.  Item ids are handed out without collision in   *)
(* Spec; SpecIds draws them as Math.random does.  SpecPipeline follows one *)
(* call of processFile, SpecSettings the settings panel, SpecTeardown adds *)
(* the unmount of the component, and SpecFair is Spec with the fairness of *)
(* the event loop.                                                         *)
(***************************************************************************)
EXTENDS Integers, Sequences, FiniteSets, TLC

\* ------------------------------------------------------------------ bounds
MaxItems == 3      \* files ingested in one session
MaxRuns == 2       \* batch runs started in one session
MaxNatural == 3    \* natural sizes 1..MaxNatural tried on each axis
MaxIds == 2        \* distinct strings Math.random is let to give as ids

\* --------------------------------------------------------------- constants
NoUrl == 0                  \* processedUrl?: undefined
Undef == -1                 \* processedSize?/Width?/Height?: undefined
Undefined == "undefined"    \* processedFormat?/error?: undefined

\* The files a user can drop: decodable says whether the browser can decode
\* the bytes; W and H are the natural size of the decoded image.
Images ==
  { [name |-> "photo",   decodable |-> TRUE,  W |-> 1000, H |-> 500, size |-> 900],
    [name |-> "corrupt", decodable |-> FALSE, W |-> 0,    H |-> 0,   size |-> 40] }

\* Byte length of an encoded blob (blob.size).
EncodedSizes == {120}

DEFAULT_OPTIONS ==
  [format |-> "image/jpeg", quality |-> 80, resizeMode |-> "original",
   resizeValue |-> 100, maintainAspectRatio |-> TRUE]

\* The settings inputs exercised here: (key, value) pairs of handleChange.
OptionInputs == { <<"resizeMode", "fixed-width">> }

\* The failures injected after a successful decode: "encode" is toBlob
\* yielding null ("context", getContext yielding null, gives a record of the
\* same shape with another message).
PostDecodeFailures == {"encode"}

VARIABLES
  files,         \* useState files: the collection, in insertion order
  options,       \* useState options
  isProcessing,  \* useState isProcessing
  pc,            \* where handleProcessAll is: "idle", "loop", "await"
  itemsToProcess,\* the run's local itemsToProcess
  runOptions,    \* the options captured by the run's closure
  idx,           \* position of the for loop in itemsToProcess
  item,          \* the for loop's local item
  loadable,      \* whether the current loadImage could start on a live URL
  result,        \* the run's local result (last pipeline result)
  nextId,        \* ids issued so far by generateId
  nextUrl,       \* object URLs issued so far by createObjectURL
  revoked,       \* object URLs passed to revokeObjectURL
  rerevoked,     \* object URLs passed to revokeObjectURL more than once
  runs,          \* batch runs started
  runStart,      \* history: the collection when the current run started
  outcomes,      \* history: pipeline outcome of each candidate handled
  procLog,       \* history: ids moved to processing in the current run
  removed,       \* history: ids removed by handleRemoveFile/handleClearAll
  pf             \* one call of processFile followed step by step

vars == << files, options, isProcessing, pc, itemsToProcess, runOptions, idx,
           item, loadable, result, nextId, nextUrl, revoked, rerevoked, runs,
           runStart, outcomes, procLog, removed, pf >>

\* ----------------------------------------------------------------- helpers
Range(s) == { s[i] : i \in 1..Len(s) }

Ids(fs) == { fs[i].id : i \in 1..Len(fs) }

Find(fs, id) == CHOOSE i \in 1..Len(fs) : fs[i].id = id

\* prev.find(f => f.id === id): the first item with this id.
FirstWith(fs, id) ==
  CHOOSE i \in 1..Len(fs) :
    fs[i].id = id /\ \A j \in 1..(i - 1) : fs[j].id # id

\* The pipeline has not returned anything yet.
NoResult ==
  [status |-> "none", processedUrl |-> NoUrl, processedFormat |-> Undefined,
   processedSize |-> Undef, processedWidth |-> Undef, processedHeight |-> Undef,
   error |-> Undefined]

\* ---------------------------------------------------- double arithmetic
\* A JavaScript number is an IEEE 754 double.  The sizes are computed with
\* one division and one multiplication of doubles followed by Math.round, so
\* the quotient is rounded to 53 significant bits before it is multiplied.
\* A non-negative double is [m, e], standing for m * 2^e, where m is a natural
\* number written as a sequence of limbs in base Base, least significant
\* first (<< >> is 0).  The operands here are integers below Base.
Base == 32768        \* 2^LimbBits
LimbBits == 15
Precision == 53      \* significant bits of a double
DivScale == 75       \* the dividend is scaled by 2^DivScale = Base^5

RECURSIVE BigFromInt(_)
BigFromInt(n) == IF n = 0 THEN << >> ELSE << n % Base >> \o BigFromInt(n \div Base)

RECURSIVE BigToInt(_)
BigToInt(a) == IF a = << >> THEN 0 ELSE Head(a) + Base * BigToInt(Tail(a))

RECURSIVE Trim(_)
\* Without the zero limbs at the most significant end.
Trim(a) ==
  IF a # << >> /\ a[Len(a)] = 0 THEN Trim(SubSeq(a, 1, Len(a) - 1)) ELSE a

RECURSIVE MulCarry(_, _, _)
MulCarry(a, k, c) ==
  IF a = << >> THEN BigFromInt(c)
  ELSE LET t == Head(a) * k + c
       IN << t % Base >> \o MulCarry(Tail(a), k, t \div Base)

\* a * k for a small k.
BigMulSmall(a, k) == Trim(MulCarry(a, k, 0))

RECURSIVE DivRem(_, _)
\* Quotient and remainder of a by a small d.
DivRem(a, d) ==
  IF a = << >> THEN [q |-> << >>, r |-> 0]
  ELSE LET hi == DivRem(Tail(a), d)
           t == hi.r * Base + Head(a)
       IN [q |-> << t \div d >> \o hi.q, r |-> t % d]

RECURSIVE AddCarry(_, _, _)
AddCarry(a, b, c) ==
  IF a = << >> /\ b = << >> THEN BigFromInt(c)
  ELSE LET x == IF a = << >> THEN 0 ELSE Head(a)
           y == IF b = << >> THEN 0 ELSE Head(b)
           t == x + y + c
       IN << t % Base >> \o
          AddCarry(IF a = << >> THEN a ELSE Tail(a),
                   IF b = << >> THEN b ELSE Tail(b), t \div Base)

BigAdd(a, b) == Trim(AddCarry(a, b, 0))

RECURSIVE Bits(_)
Bits(n) == IF n = 0 THEN 0 ELSE 1 + Bits(n \div 2)

RECURSIVE Pow2(_)
Pow2(k) == IF k = 0 THEN 1 ELSE 2 * Pow2(k - 1)

\* Number of significant bits of a trimmed a.
BitLen(a) ==
  IF a = << >> THEN 0 ELSE LimbBits * (Len(a) - 1) + Bits(a[Len(a)])

RECURSIVE ShiftLeft(_, _)
\* a * 2^k.
ShiftLeft(a, k) ==
  IF a = << >> THEN << >>
  ELSE IF k >= LimbBits THEN << 0 >> \o ShiftLeft(a, k - LimbBits)
       ELSE BigMulSmall(a, Pow2(k))

RECURSIVE ShiftRight(_, _)
\* floor(a / 2^k), and whether a non-zero bit was shifted out.
ShiftRight(a, k) ==
  IF k = 0 \/ a = << >> THEN [q |-> a, sticky |-> FALSE]
  ELSE IF k >= LimbBits
       THEN LET r == ShiftRight(Tail(a), k - LimbBits)
            IN [q |-> r.q, sticky |-> r.sticky \/ Head(a) # 0]
       ELSE LET d == DivRem(a, Pow2(k))
            IN [q |-> Trim(d.q), sticky |-> d.r # 0]

IsOdd(a) == a # << >> /\ Head(a) % 2 = 1

\* Round a (with a non-zero fraction below it when inexact) to Precision
\* significant bits, to nearest, ties to even: a is about m * 2^s.
RoundToPrecision(a, inexact) ==
  IF BitLen(a) <= Precision THEN [m |-> a, s |-> 0]
  ELSE LET s == BitLen(a) - Precision
           x == ShiftRight(a, s - 1)
           q == ShiftRight(x.q, 1).q
           up == IsOdd(x.q) /\ (x.sticky \/ inexact \/ IsOdd(q))
       IN [m |-> IF up THEN BigAdd(q, << 1 >>) ELSE q, s |-> s]

DoubleZero == [m |-> << >>, e |-> 0]

\* The double n / d, for integers 0 <= n < Base and 0 < d < Base (a decoded
\* image has natural sizes of at least 1, so d = 0 does not arise).
DoubleDiv(n, d) ==
  IF n = 0 \/ d = 0 THEN DoubleZero
  ELSE LET dr == DivRem(<< 0, 0, 0, 0, 0 >> \o BigFromInt(n), d)
           r == RoundToPrecision(Trim(dr.q), dr.r # 0)
       IN [m |-> r.m, e |-> r.s - DivScale]

\* The double k * x, for an integer 0 <= k < Base.
DoubleMulInt(k, x) ==
  IF k = 0 \/ x.m = << >> THEN DoubleZero
  ELSE LET r == RoundToPrecision(BigMulSmall(x.m, k), FALSE)
       IN [m |-> r.m, e |-> x.e + r.s]

\* Math.round(x): floor(x + 0.5), computed exactly.
MathRound(x) ==
  IF x.m = << >> THEN 0
  ELSE IF x.e >= 0 THEN BigToInt(ShiftLeft(x.m, x.e))
       ELSE BigToInt(ShiftRight(BigAdd(x.m, ShiftLeft(<< 1 >>, (0 - x.e) - 1)),
                                0 - x.e).q)

\* URL.revokeObjectURL applied to every URL of S.
RevokedAfter(S) == revoked \cup S
RerevokedAfter(S) == rerevoked \cup (S \cap revoked)

\* -------------------------------------------------------------- the pipeline
\* Math.round(v * ratio) where ratio is the double num / den (lines 68-69,
\* 74-75 and 80-81).
Scaled(v, num, den) == MathRound(DoubleMulInt(v, DoubleDiv(num, den)))

\* Variant: the fixed modes scale the other axis whatever maintainAspectRatio
\* is.
ResolveDimensionsAlwaysAspect(W, H, opts) ==
  CASE opts.resizeMode = "percentage" ->
         [w |-> Scaled(W, opts.resizeValue, 100),
          h |-> Scaled(H, opts.resizeValue, 100)]
    [] opts.resizeMode = "fixed-width" ->
         [w |-> opts.resizeValue, h |-> Scaled(opts.resizeValue, H, W)]
    [] opts.resizeMode = "fixed-height" ->
         [w |-> Scaled(opts.resizeValue, W, H), h |-> opts.resizeValue]
    [] OTHER -> [w |-> W, h |-> H]

\* Variant: every mode but the two fixed ones scales by resizeValue percent.
ResolveDimensionsNoOriginal(W, H, opts) ==
  CASE opts.resizeMode = "fixed-width" ->
         [w |-> opts.resizeValue,
          h |-> IF opts.maintainAspectRatio
                THEN Scaled(opts.resizeValue, H, W) ELSE H]
    [] opts.resizeMode = "fixed-height" ->
         [w |-> IF opts.maintainAspectRatio
                THEN Scaled(opts.resizeValue, W, H) ELSE W,
          h |-> opts.resizeValue]
    [] OTHER ->
         [w |-> Scaled(W, opts.resizeValue, 100),
          h |-> Scaled(H, opts.resizeValue, 100)]

\* processFile, lines 63-83: the target size from the natural size.
ResolveDimensions(W, H, opts) ==
  CASE opts.resizeMode = "percentage" ->
         [w |-> Scaled(W, opts.resizeValue, 100),
          h |-> Scaled(H, opts.resizeValue, 100)]
    [] opts.resizeMode = "fixed-width" ->
         [w |-> opts.resizeValue,
          h |-> IF opts.maintainAspectRatio
                THEN Scaled(opts.resizeValue, H, W) ELSE H]
    [] opts.resizeMode = "fixed-height" ->
         [w |-> IF opts.maintainAspectRatio
                THEN Scaled(opts.resizeValue, W, H) ELSE W,
          h |-> opts.resizeValue]
    [] OTHER -> [w |-> W, h |-> H]

\* What was thrown inside processFile's try block, as err.message.
ErrorMessage(outcome) ==
  CASE outcome = "decode"  -> "Failed to load image"
    [] outcome = "context" -> "Could not get canvas context"
    [] outcome = "encode"  -> "Image encoding failed"
    [] OTHER -> "Processing failed"

\* Variant: the width and the height change places.
SuccessRecordSwapped(opts, url, size, w, h) ==
  [status |-> "completed", processedUrl |-> url,
   processedFormat |-> opts.format, processedSize |-> size,
   processedWidth |-> h, processedHeight |-> w, error |-> Undefined]

\* processFile, lines 115-123: the record of a success.
SuccessRecord(opts, url, size, w, h) ==
  [status |-> "completed", processedUrl |-> url,
   processedFormat |-> opts.format, processedSize |-> size,
   processedWidth |-> w, processedHeight |-> h, error |-> Undefined]

\* processFile, lines 126-129: the record of a failure, which has only the
\* keys status and error.
FailureRecord(message) ==
  [NoResult EXCEPT !.status = "error", !.error = message]

\* Variant: the catch block lets the exception through.
CatchRethrow(message) == [rejected |-> TRUE, res |-> NoResult]

\* Variant: the catch block reports err.message as it is.
CatchRawMessage(message) ==
  [rejected |-> FALSE, res |-> FailureRecord(message)]

\* processFile, lines 124-130: the catch block, for a thrown value whose
\* message is message ("" when it is empty or missing).
Catch(message) ==
  [rejected |-> FALSE,
   res |-> FailureRecord(IF message = "" THEN "Processing failed" ELSE message)]

\* processFile: the record it resolves with.  outcome says how far the
\* pipeline got, url is the object URL made for the blob, size is blob.size.
ProcessFile(it, opts, outcome, url, size) ==
  IF outcome = "ok"
  THEN LET d == ResolveDimensions(it.file.W, it.file.H, opts)
       IN SuccessRecord(opts, url, size, d.w, d.h)
  ELSE Catch(ErrorMessage(outcome)).res

\* ------------------------------------------------------- the batch controller
IsIdleOrError(f) == f.status = "idle" \/ f.status = "error"

\* Variant: every item that is not completed, and no fallback to the whole
\* collection.
SelectCandidatesNotCompleted(fs) ==
  SelectSeq(fs, LAMBDA f : f.status # "completed")

\* Variant: the whole collection, whatever the statuses.
SelectCandidatesAll(fs) == fs

\* Variant: the candidates in reverse order.
SelectCandidatesReversed(fs) ==
  LET todo == SelectSeq(fs, IsIdleOrError)
      pick == IF Len(todo) = 0 /\ Len(fs) > 0 THEN fs ELSE todo
  IN [i \in 1..Len(pick) |-> pick[Len(pick) + 1 - i]]

\* handleProcessAll, lines 119-125: the items of a run.
SelectCandidates(fs) ==
  LET todo == SelectSeq(fs, IsIdleOrError)
  IN IF Len(todo) = 0 /\ Len(fs) > 0 THEN fs ELSE todo

\* Variant: the updater without the test on the id.
MarkProcessingNoIdCheck(fs, id) ==
  [i \in 1..Len(fs) |->
     [fs[i] EXCEPT !.status = "processing", !.error = Undefined]]

\* handleProcessAll, line 128: the updater that moves one item to processing.
MarkProcessing(fs, id) ==
  [i \in 1..Len(fs) |->
     IF fs[i].id = id
     THEN [fs[i] EXCEPT !.status = "processing", !.error = Undefined]
     ELSE fs[i]]

\* Variant: a success also overwrites the original size and dimensions.
SpreadOverOriginal(f, res) ==
  IF res.status = "completed"
  THEN [f EXCEPT !.status = res.status, !.processedUrl = res.processedUrl,
                 !.processedFormat = res.processedFormat,
                 !.processedSize = res.processedSize,
                 !.processedWidth = res.processedWidth,
                 !.processedHeight = res.processedHeight,
                 !.originalSize = res.processedSize,
                 !.originalWidth = res.processedWidth,
                 !.originalHeight = res.processedHeight,
                 !.error = res.error]
  ELSE [f EXCEPT !.status = res.status, !.error = res.error]

\* { ...f, ...res }: the keys res has replace those of f.
Spread(f, res) ==
  IF res.status = "completed"
  THEN [f EXCEPT !.status = res.status, !.processedUrl = res.processedUrl,
                 !.processedFormat = res.processedFormat,
                 !.processedSize = res.processedSize,
                 !.processedWidth = res.processedWidth,
                 !.processedHeight = res.processedHeight,
                 !.error = res.error]
  ELSE [f EXCEPT !.status = res.status, !.error = res.error]

\* Variant: the merge without the test on the id.
MergeResultNoIdCheck(fs, id, res) ==
  IF id \notin Ids(fs) THEN fs
  ELSE [i \in 1..Len(fs) |-> Spread(fs[i], res)]

\* Variant: the merge drops a failure, leaving the item as it is.
MergeResultSkipFailure(fs, id, res) ==
  IF id \notin Ids(fs) \/ res.status # "completed" THEN fs
  ELSE [i \in 1..Len(fs) |-> IF fs[i].id = id THEN Spread(fs[i], res) ELSE fs[i]]

\* handleProcessAll, lines 138-154: the updater that merges a result.
MergeResult(fs, id, res) ==
  IF id \notin Ids(fs) THEN fs
  ELSE [i \in 1..Len(fs) |-> IF fs[i].id = id THEN Spread(fs[i], res) ELSE fs[i]]

\* Variant: the updater without the release of a discarded result.
RevokedByMergeNoDiscard(fs, id, res) ==
  IF id \notin Ids(fs) THEN {}
  ELSE { fs[i].processedUrl : i \in { j \in 1..Len(fs) :
            /\ fs[j].id = id
            /\ fs[j].processedUrl # NoUrl
            /\ fs[j].processedUrl # res.processedUrl } }

\* Variant: the updater without the release of the payload it replaces.
RevokedByMergeKeepOld(fs, id, res) ==
  IF id \notin Ids(fs)
  THEN IF res.processedUrl # NoUrl THEN {res.processedUrl} ELSE {}
  ELSE {}

\* handleProcessAll, lines 141 and 147-149: the URLs that updater revokes.
RevokedByMerge(fs, id, res) ==
  IF id \notin Ids(fs)
  THEN IF res.processedUrl # NoUrl THEN {res.processedUrl} ELSE {}
  ELSE { fs[i].processedUrl : i \in { j \in 1..Len(fs) :
            /\ fs[j].id = id
            /\ fs[j].processedUrl # NoUrl
            /\ fs[j].processedUrl # res.processedUrl } }

\* Variant: a failure ends the loop.
AfterItemAbortOnError(i, n, res) == IF res.status = "error" THEN n + 1 ELSE i + 1

\* handleProcessAll, line 127: the for loop goes on to the next item.
AfterItem(i, n, res) == i + 1

\* Variant: the loop takes the first idle or error item of the collection as
\* it is now, when there is one.
LoopItemLive(items, i) ==
  LET todo == SelectSeq(files, IsIdleOrError)
  IN IF Len(todo) > 0 THEN todo[1] ELSE items[i]

\* handleProcessAll, line 127: the item of the i-th iteration, taken from the
\* array computed before the loop.
LoopItem(items, i) == items[i]

\* The ways the pipeline can end for the current item: the decode fails when
\* the bytes are undecodable or the preview URL was revoked before loadImage
\* started; when the URL is revoked while the load is in flight either can
\* happen; the later steps may fail for any image.
PossibleOutcomes(it) ==
  IF ~loadable THEN {"decode"}
  ELSE {"ok"} \cup PostDecodeFailures
       \cup (IF it.previewUrl \in revoked THEN {"decode"} ELSE {})

\* handleFilesDropped, lines 71-79.
NewItem(id, im, url) ==
  [id |-> id, file |-> im, previewUrl |-> url, originalSize |-> im.size,
   originalWidth |-> IF im.decodable THEN im.W ELSE 0,
   originalHeight |-> IF im.decodable THEN im.H ELSE 0,
   status |-> "idle", processedUrl |-> NoUrl, processedFormat |-> Undefined,
   processedSize |-> Undef, processedWidth |-> Undef,
   processedHeight |-> Undef, error |-> Undefined]

\* The loop has no item yet.
NoItem ==
  NewItem(0, [name |-> "none", decodable |-> FALSE, W |-> 0, H |-> 0,
              size |-> 0], NoUrl)

\* generateId: the ids it can return (no collision with an issued id).
generateId == { nextId + 1 }

\* The range input of the settings panel, for the mode on display.
SliderValues(mode) ==
  IF mode = "percentage" THEN { 10 + 5 * k : k \in 0..38 }
  ELSE { 100 + 50 * k : k \in 0..78 }

\* No call of processFile is followed.
NoCall == [stage |-> "none"]

\* -------------------------------------------------------------------- Init
Init ==
  /\ files = << >>
  /\ options = DEFAULT_OPTIONS
  /\ isProcessing = FALSE
  /\ pc = "idle"
  /\ itemsToProcess = << >>
  /\ runOptions = DEFAULT_OPTIONS
  /\ idx = 1
  /\ item = NoItem
  /\ loadable = FALSE
  /\ result = NoResult
  /\ nextId = 0
  /\ nextUrl = 0
  /\ revoked = {}
  /\ rerevoked = {}
  /\ runs = 0
  /\ runStart = << >>
  /\ outcomes = << >>
  /\ procLog = << >>
  /\ removed = {}
  /\ pf = NoCall

\* A handler can run: the run is not inside a synchronous segment.
CanYield == pc \in {"idle", "await"}

\* Variant: the settings controls are disabled only when there are no files.
SettingsDisabledNoFiles == Len(files) = 0

\* App, line 244: the disabled prop of the settings panel, which every
\* control of the panel takes.
SettingsDisabled == isProcessing \/ Len(files) = 0

\* Variant: the Clear button is never disabled.
ClearDisabledNever == FALSE

\* App, line 308: the disabled attribute of the Clear button (no zip is made
\* here, so isZipping is false).
ClearDisabled == isProcessing

\* SettingsPanel, line 165: the disabled attribute of the Process button.
ProcessDisabled == SettingsDisabled \/ ~(Len(files) > 0) \/ isProcessing

runVars == << isProcessing, pc, itemsToProcess, runOptions, idx, item, loadable,
              result, runs, runStart, outcomes, procLog, pf >>

\* ----------------------------------------------------------------- actions
\* handleFilesDropped, one file of the drop: the item is appended.
handleFilesDropped ==
  /\ CanYield
  /\ nextId < MaxItems
  /\ \E im \in Images : \E id \in generateId :
       /\ files' = Append(files, NewItem(id, im, nextUrl + 1))
       /\ nextId' = nextId + 1
       /\ nextUrl' = nextUrl + 1
  /\ UNCHANGED << options, revoked, rerevoked, removed >>
  /\ UNCHANGED runVars

\* handleRemoveFile(id), for the remove button of a displayed item.
handleRemoveFile ==
  /\ CanYield
  /\ \E i \in 1..Len(files) :
       LET f == files[FirstWith(files, files[i].id)]
           urls == {f.previewUrl} \cup
                   (IF f.processedUrl # NoUrl THEN {f.processedUrl} ELSE {})
       IN /\ revoked' = RevokedAfter(urls)
          /\ rerevoked' = RerevokedAfter(urls)
          /\ files' = SelectSeq(files, LAMBDA g : g.id # f.id)
          /\ removed' = removed \cup {f.id}
  /\ UNCHANGED << options, nextId, nextUrl >>
  /\ UNCHANGED runVars

\* handleClearAll; its button is shown when there are files and disabled
\* while isProcessing.
handleClearAll ==
  /\ CanYield
  /\ ~ClearDisabled
  /\ Len(files) > 0
  /\ LET urls == { files[i].previewUrl : i \in 1..Len(files) } \cup
                 ({ files[i].processedUrl : i \in 1..Len(files) } \ {NoUrl})
     IN /\ revoked' = RevokedAfter(urls)
        /\ rerevoked' = RerevokedAfter(urls)
  /\ files' = << >>
  /\ removed' = removed \cup Ids(files)
  /\ UNCHANGED << options, nextId, nextUrl >>
  /\ UNCHANGED runVars

\* SettingsPanel handleChange(key, value); every control is disabled while
\* isProcessing or when there are no files, and the resize slider is shown
\* only when the mode is not original.
handleChange ==
  /\ CanYield
  /\ ~SettingsDisabled
  /\ \E kv \in OptionInputs :
       /\ kv[1] = "resizeValue" =>
            /\ options.resizeMode # "original"
            /\ kv[2] \in SliderValues(options.resizeMode)
       /\ options' = [options EXCEPT ![kv[1]] = kv[2]]
       /\ options' # options
  /\ UNCHANGED << files, nextId, nextUrl, revoked, rerevoked, removed >>
  /\ UNCHANGED runVars

\* handleProcessAll up to the for loop; its button is disabled while
\* isProcessing or when there are no files.
ProcessAllStart ==
  /\ pc = "idle"
  /\ ~ProcessDisabled
  /\ runs < MaxRuns
  /\ isProcessing' = TRUE
  /\ itemsToProcess' = SelectCandidates(files)
  /\ runOptions' = options
  /\ idx' = 1
  /\ pc' = "loop"
  /\ runs' = runs + 1
  /\ runStart' = files
  /\ outcomes' = << >>
  /\ procLog' = << >>
  /\ result' = NoResult
  /\ UNCHANGED << files, options, item, loadable, nextId, nextUrl, revoked,
                  rerevoked, removed, pf >>

\* The head of one loop iteration: the item is moved to processing and
\* processFile is called, which starts loadImage(item.previewUrl).
StartNext ==
  /\ pc = "loop"
  /\ idx <= Len(itemsToProcess)
  /\ LET it == LoopItem(itemsToProcess, idx)
     IN /\ item' = it
        /\ files' = MarkProcessing(files, it.id)
        /\ loadable' = (it.file.decodable /\ it.previewUrl \notin revoked)
        /\ procLog' = IF it.id \in Ids(files)
                      THEN Append(procLog, it.id) ELSE procLog
  /\ pc' = "await"
  /\ UNCHANGED << options, isProcessing, itemsToProcess, runOptions, idx,
                  result, nextId, nextUrl, revoked, rerevoked, runs, runStart,
                  outcomes, removed, pf >>

\* The continuation after await processFile: the result is merged into the
\* collection, or discarded when the item is gone.
PipelineReturn ==
  /\ pc = "await"
  /\ \E outcome \in PossibleOutcomes(item) : \E size \in EncodedSizes :
          LET res == ProcessFile(item, runOptions, outcome, nextUrl + 1, size)
              urls == RevokedByMerge(files, item.id, res)
          IN /\ result' = res
             /\ nextUrl' = IF outcome = "ok" THEN nextUrl + 1 ELSE nextUrl
             /\ files' = MergeResult(files, item.id, res)
             /\ revoked' = RevokedAfter(urls)
             /\ rerevoked' = RerevokedAfter(urls)
             /\ outcomes' = Append(outcomes, outcome)
             /\ idx' = AfterItem(idx, Len(itemsToProcess), res)
  /\ pc' = "loop"
  /\ UNCHANGED << options, isProcessing, itemsToProcess, runOptions, item,
                  loadable, nextId, runs, runStart, procLog, removed, pf >>

\* The for loop is over: setIsProcessing(false).
FinishRun ==
  /\ pc = "loop"
  /\ idx > Len(itemsToProcess)
  /\ isProcessing' = FALSE
  /\ pc' = "idle"
  /\ UNCHANGED << files, options, itemsToProcess, runOptions, idx, item,
                  loadable, result, nextId, nextUrl, revoked, rerevoked, runs,
                  runStart, outcomes, procLog, removed, pf >>

Next ==
  \/ handleFilesDropped
  \/ handleRemoveFile
  \/ handleClearAll
  \/ handleChange
  \/ ProcessAllStart
  \/ StartNext
  \/ PipelineReturn
  \/ FinishRun

Spec == Init /\ [][Next]_vars

\* ---------------------------------------------- one call of processFile
\* processFile(item, options) followed statement by statement, for every
\* image and every options value of a bounded set; pf holds its locals.
SUPPORTED_FORMATS == {"image/jpeg", "image/png", "image/webp"}

ResizeModes == {"original", "percentage", "fixed-width", "fixed-height"}

\* resizeValue: 0 is a malformed value; 35 is a percentage and 450 a pixel
\* count the slider can give.
ResizeValues == {0, 10, 35, 100, 450, 500}

\* Natural sizes (naturalWidth, naturalHeight) of decoded images.
NaturalSizes ==
  ((1..MaxNatural) \X (1..MaxNatural))
    \cup { << 12, 13 >>, << 13, 12 >>, << 90, 45 >>, << 1000, 500 >> }

PipelineImages ==
  { [decodable |-> TRUE, W |-> wh[1], H |-> wh[2]] : wh \in NaturalSizes }
    \cup { [decodable |-> FALSE, W |-> 0, H |-> 0] }

PipelineOptions ==
  [format : SUPPORTED_FORMATS, quality : {80}, resizeMode : ResizeModes,
   resizeValue : ResizeValues, maintainAspectRatio : BOOLEAN]

\* canvas.toBlob hands over null or a Blob; a Blob is modelled by its size.
NoBlob == -1
BlobSizes == {0, 120}

\* A canvas without pixels serializes to null; any canvas may.
ToBlobResults(w, h) ==
  IF w = 0 \/ h = 0 THEN {NoBlob} ELSE {NoBlob} \cup BlobSizes

\* Variant: onerror resolves the promise too.
LoadImageAlwaysResolves(img) == "resolved"

\* loadImage, lines 18-26: onload resolves, onerror rejects.
LoadImage(img) == IF img.decodable THEN "resolved" ELSE "rejected"

NewCall(img, opts) ==
  [stage |-> "called", img |-> img, opts |-> opts,
   targetWidth |-> Undef, targetHeight |-> Undef, blob |-> NoBlob,
   url |-> NoUrl, thrown |-> Undefined, rejected |-> FALSE,
   res |-> NoResult, ctrl |-> NoResult, trace |-> << >>]

mainVars == << files, options, isProcessing, pc, itemsToProcess, runOptions,
               idx, item, loadable, result, nextId, nextUrl, revoked,
               rerevoked, runs, runStart, outcomes, procLog, removed >>

InitPipeline ==
  /\ files = << >>
  /\ options = DEFAULT_OPTIONS
  /\ isProcessing = FALSE
  /\ pc = "idle"
  /\ itemsToProcess = << >>
  /\ runOptions = DEFAULT_OPTIONS
  /\ idx = 1
  /\ item = NoItem
  /\ loadable = FALSE
  /\ result = NoResult
  /\ nextId = 0
  /\ nextUrl = 0
  /\ revoked = {}
  /\ rerevoked = {}
  /\ runs = 0
  /\ runStart = << >>
  /\ outcomes = << >>
  /\ procLog = << >>
  /\ removed = {}
  /\ pf \in { NewCall(img, opts) : img \in PipelineImages, opts \in PipelineOptions }

\* Line 61: await loadImage(item.previewUrl).
PfLoadImage ==
  /\ pf.stage = "called"
  /\ pf' = IF LoadImage(pf.img) = "resolved"
           THEN [pf EXCEPT !.stage = "loaded", !.trace = Append(@, "load")]
           ELSE [pf EXCEPT !.stage = "thrown", !.trace = Append(@, "load"),
                           !.thrown = "Failed to load image"]
  /\ UNCHANGED mainVars

\* Lines 63-83: the target size.
PfResolve ==
  /\ pf.stage = "loaded"
  /\ LET d == ResolveDimensions(pf.img.W, pf.img.H, pf.opts)
     IN pf' = [pf EXCEPT !.stage = "sized", !.trace = Append(@, "resolve"),
                         !.targetWidth = d.w, !.targetHeight = d.h]
  /\ UNCHANGED mainVars

\* Lines 86-98: the canvas, its context and drawImage.  getContext may give
\* null, and a call may throw a value without a message.
PfCanvas ==
  /\ pf.stage = "sized"
  /\ \E c \in {"ok", "nocontext", "exception"} :
       pf' = CASE c = "ok" ->
                    [pf EXCEPT !.stage = "drawn", !.trace = Append(@, "draw")]
               [] c = "nocontext" ->
                    [pf EXCEPT !.stage = "thrown", !.trace = Append(@, "canvas"),
                               !.thrown = "Could not get canvas context"]
               [] OTHER ->
                    [pf EXCEPT !.stage = "thrown", !.trace = Append(@, "canvas"),
                               !.thrown = ""]
  /\ UNCHANGED mainVars

\* Lines 101-123: toBlob, the test of the blob, the object URL and the
\* success record.
PfEncode ==
  /\ pf.stage = "drawn"
  /\ \E b \in ToBlobResults(pf.targetWidth, pf.targetHeight) :
       pf' = IF b = NoBlob
             THEN [pf EXCEPT !.stage = "thrown", !.trace = Append(@, "encode"),
                             !.thrown = "Image encoding failed"]
             ELSE [pf EXCEPT !.stage = "settled", !.trace = Append(@, "encode"),
                             !.blob = b, !.url = 1,
                             !.res = SuccessRecord(pf.opts, 1, b,
                                        pf.targetWidth, pf.targetHeight)]
  /\ UNCHANGED mainVars

\* Lines 124-130: the catch block.
PfCatch ==
  /\ pf.stage = "thrown"
  /\ LET c == Catch(pf.thrown)
     IN pf' = [pf EXCEPT !.stage = "settled", !.rejected = c.rejected,
                         !.res = c.res]
  /\ UNCHANGED mainVars

\* handleProcessAll, lines 132-136: the await of processFile and the catch
\* around it.
PfAwaited ==
  /\ pf.stage = "settled"
  /\ pf' = [pf EXCEPT !.stage = "returned",
                      !.ctrl = IF pf.rejected
                               THEN FailureRecord(IF pf.thrown = ""
                                                  THEN "Processing failed"
                                                  ELSE pf.thrown)
                               ELSE pf.res]
  /\ UNCHANGED mainVars

NextPipeline ==
  \/ PfLoadImage
  \/ PfResolve
  \/ PfCanvas
  \/ PfEncode
  \/ PfCatch
  \/ PfAwaited

SpecPipeline == InitPipeline /\ [][NextPipeline]_vars

\* ------------------------------------------------------------ random ids
\* generateId, line 15: a string cut out of Math.random(), which draws anew
\* at every call and knows nothing of the ids issued before.
MathRandomIds == 1..MaxIds

\* handleFilesDropped with the id generateId draws.
handleFilesDroppedRandomId ==
  /\ CanYield
  /\ nextId < MaxItems
  /\ \E im \in Images : \E id \in MathRandomIds :
       /\ files' = Append(files, NewItem(id, im, nextUrl + 1))
       /\ nextId' = nextId + 1
       /\ nextUrl' = nextUrl + 1
  /\ UNCHANGED << options, revoked, rerevoked, removed >>
  /\ UNCHANGED runVars

NextIds ==
  \/ handleFilesDroppedRandomId
  \/ handleRemoveFile
  \/ handleClearAll
  \/ handleChange
  \/ ProcessAllStart
  \/ StartNext
  \/ PipelineReturn
  \/ FinishRun

SpecIds == Init /\ [][NextIds]_vars

\* ------------------------------------------------------------- scheduling
\* The event loop runs a synchronous segment to its end (StartNext,
\* FinishRun), and resumes handleProcessAll once the promise of processFile
\* settles; every pipeline invocation is taken to settle (PipelineReturn).
\* Nothing obliges the user to act.
SpecFair ==
  /\ Init
  /\ [][Next]_vars
  /\ WF_vars(StartNext)
  /\ WF_vars(PipelineReturn)
  /\ WF_vars(FinishRun)

\* ------------------------------------------------------- the settings panel
\* Every control of the settings panel that bears on the resize: the four
\* mode buttons, the range input and the aspect ratio checkbox (both shown
\* when the mode is not original) and the format select.  Each calls
\* handleChange, which replaces one key of the options on display.  The
\* quality input is left out: it writes the quality key only.
PanelChange ==
  /\ CanYield
  /\ ~SettingsDisabled
  /\ \/ \E m \in ResizeModes :
          options' = [options EXCEPT !.resizeMode = m]
     \/ /\ options.resizeMode # "original"
        /\ \E v \in SliderValues(options.resizeMode) :
             options' = [options EXCEPT !.resizeValue = v]
     \/ /\ options.resizeMode # "original"
        /\ options' = [options EXCEPT !.maintainAspectRatio = ~@]
     \/ \E fmt \in SUPPORTED_FORMATS :
          options' = [options EXCEPT !.format = fmt]
  /\ UNCHANGED << files, nextId, nextUrl, revoked, rerevoked, removed >>
  /\ UNCHANGED runVars

NextSettings ==
  \/ handleFilesDropped
  \/ PanelChange

SpecSettings == Init /\ [][NextSettings]_vars

\* ------------------------------------------------------------- teardown
\* The files the effect of line 20 sees: its dependency list is empty, so
\* the cleanup React keeps is the closure of the first render, in which files
\* is the initial state of useState.
EffectFiles == << >>

\* Lines 22-25: the URLs the cleanup passes to revokeObjectURL.
CleanupUrls(fs) ==
  { fs[i].previewUrl : i \in 1..Len(fs) } \cup
  ({ fs[i].processedUrl : i \in 1..Len(fs) } \ {NoUrl})

\* The App component is unmounted: React runs the cleanup of the effect.
\* State updates of an unmounted component are dropped, so nothing of the
\* component runs afterwards.
Unmount ==
  /\ CanYield
  /\ pc' = "unmounted"
  /\ revoked' = RevokedAfter(CleanupUrls(EffectFiles))
  /\ rerevoked' = RerevokedAfter(CleanupUrls(EffectFiles))
  /\ UNCHANGED << files, options, isProcessing, itemsToProcess, runOptions, idx,
                  item, loadable, result, nextId, nextUrl, runs, runStart,
                  outcomes, procLog, removed, pf >>

NextTeardown ==
  \/ Next
  \/ Unmount

SpecTeardown == Init /\ [][NextTeardown]_vars

\* ------------------------------------------------------- shared predicates
\* The item with this id, in a collection that has it.
ItemOf(fs, id) == fs[Find(fs, id)]

NoOutput(f) ==
  /\ f.processedUrl = NoUrl
  /\ f.processedFormat = Undefined
  /\ f.processedSize = Undef
  /\ f.processedWidth = Undef
  /\ f.processedHeight = Undef

AllOutput(f) ==
  /\ f.processedUrl # NoUrl
  /\ f.processedFormat # Undefined
  /\ f.processedSize # Undef
  /\ f.processedWidth # Undef
  /\ f.processedHeight # Undef

\* The collection at the start of the run had an idle or error item.
NormalRun == \E i \in 1..Len(runStart) : IsIdleOrError(runStart[i])

\* The run has gone through all of its items.
LoopOver == pc = "loop" /\ idx > Len(itemsToProcess)

\* ------------------------------------------------------------------ claims

\* C1: when a batch run starts, its candidates are exactly the items whose
\* status is idle or error; when there is none and the collection is not
\* empty, the candidates are the whole collection.
C1_CandidateSet ==
  runs > 0 =>
    LET todo == { i \in 1..Len(runStart) :
                    runStart[i].status \in {"idle", "error"} }
        want == IF todo = {} THEN 1..Len(runStart) ELSE todo
    IN /\ Range(itemsToProcess) = { runStart[i] : i \in want }
       /\ Len(itemsToProcess) = Cardinality(want)

C1_Witness ==
  /\ isProcessing
  /\ Len(runStart) >= 2
  /\ \A i \in 1..Len(runStart) : runStart[i].status = "completed"
  /\ itemsToProcess = runStart

C4_FieldsMatchStatus ==
  \A i \in 1..Len(files) :
    LET f == files[i]
    IN \/ f.status \in {"idle", "processing"} /\ NoOutput(f) /\ f.error = Undefined
       \/ f.status = "completed" /\ AllOutput(f) /\ f.error = Undefined
       \/ f.status = "error" /\ f.error # Undefined /\ NoOutput(f)

\* C5: an item with status processing carries neither output fields nor an
\* error: both are cleared when the item is moved to processing.
C5_ProcessingCleared ==
  \A i \in 1..Len(files) :
    files[i].status = "processing" =>
      NoOutput(files[i]) /\ files[i].error = Undefined

RoundDiv(n, d) == (2 * n + d) \div (2 * d)

\* processFile has computed the target size.
Sized == pf.stage \in {"sized", "drawn", "thrown", "settled", "returned"}
           /\ pf.targetWidth # Undef

\* processFile has settled.
Settled == pf.stage \in {"settled", "returned"}

\* C11: every exception raised in processFile becomes a failure record with
\* status error and the message; processFile never rejects, and the
\* controller gets a completed or error record whatever happened.
C11_ErrorsBecomeFailures ==
  /\ ~pf.rejected
  /\ (Settled /\ pf.thrown # Undefined) =>
       /\ pf.res.status = "error"
       /\ pf.res.error # Undefined
       /\ pf.thrown # "" => pf.res.error = pf.thrown
       /\ pf.res.processedUrl = NoUrl
  /\ pf.stage = "returned" =>
       /\ pf.ctrl = pf.res
       /\ pf.ctrl.status \in {"completed", "error"}

C11_Witness ==
  /\ pf.stage = "returned"
  /\ pf.thrown = "Image encoding failed"
  /\ pf.ctrl.status = "error"
  /\ pf.ctrl.error = "Image encoding failed"

\* C12: when the decode fails, processFile gives a failure with a non-empty
\* message at once: no size is resolved, nothing is drawn or encoded and no
\* output payload is made.
C12_DecodeFailureStops ==
  (~pf.img.decodable /\ pf.stage # "called") =>
    /\ pf.stage \in {"thrown", "settled", "returned"}
    /\ pf.trace = << "load" >>
    /\ pf.targetWidth = Undef /\ pf.targetHeight = Undef
    /\ pf.blob = NoBlob /\ pf.url = NoUrl
    /\ Settled =>
         /\ pf.res.status = "error"
         /\ pf.res.error \notin {Undefined, ""}
         /\ pf.res.processedUrl = NoUrl

C12_Witness ==
  /\ pf.stage = "returned"
  /\ ~pf.img.decodable
  /\ pf.ctrl.status = "error"
  /\ pf.ctrl.error = "Failed to load image"

\* C13: a null or zero-byte result of the encoder gives a failure: every
\* success has an output of more than 0 bytes.
C13_EmptyResultFails ==
  (Settled /\ pf.res.status = "completed") => pf.res.processedSize > 0

\* C14: a success reports the requested format, the byte length of the
\* encoded payload and the size resolved from the natural size and the
\* options; 1000x500 with fixed-width 500, aspect ratio kept and webp gives
\* 500x250, webp.
C14_SuccessRecord ==
  (Settled /\ pf.res.status = "completed") =>
    /\ pf.res.processedFormat = pf.opts.format
    /\ pf.res.processedSize = pf.blob
    /\ pf.res.processedWidth = pf.targetWidth
    /\ pf.res.processedHeight = pf.targetHeight
    /\ pf.res.processedUrl = pf.url /\ pf.url # NoUrl
    /\ (/\ pf.img.W = 1000 /\ pf.img.H = 500
        /\ pf.opts.resizeMode = "fixed-width" /\ pf.opts.resizeValue = 500
        /\ pf.opts.maintainAspectRatio /\ pf.opts.format = "image/webp") =>
         /\ pf.res.processedWidth = 500
         /\ pf.res.processedHeight = 250
         /\ pf.res.processedFormat = "image/webp"

C14_Witness ==
  /\ pf.stage = "returned"
  /\ pf.ctrl.status = "completed"
  /\ pf.img.W = 1000 /\ pf.img.H = 500
  /\ pf.opts.resizeMode = "fixed-width" /\ pf.opts.resizeValue = 500
  /\ pf.opts.maintainAspectRatio /\ pf.opts.format = "image/webp"
  /\ pf.ctrl.processedWidth = 500 /\ pf.ctrl.processedHeight = 250

\* C15: under percentage with resizeValue v the resolved size is
\* (round(W*v/100), round(H*v/100)), whatever maintainAspectRatio is, and
\* both are at least 1.
C15_PercentageRule ==
  (Sized /\ pf.opts.resizeMode = "percentage") =>
    /\ pf.targetWidth = RoundDiv(pf.img.W * pf.opts.resizeValue, 100)
    /\ pf.targetHeight = RoundDiv(pf.img.H * pf.opts.resizeValue, 100)
    /\ pf.targetWidth >= 1
    /\ pf.targetHeight >= 1

\* C16: the resolved size is at least 1 pixel on each axis for every mode
\* and every resizeValue, and the item does not fail because of the options.
C16_MinimumOnePixel ==
  Sized => pf.targetWidth >= 1 /\ pf.targetHeight >= 1

\* C17: under fixed-width with resizeValue v and the aspect ratio kept, the
\* resolved width is v and the resolved height is round(v*H/W).
C17_FixedWidthAspect ==
  (Sized /\ pf.opts.resizeMode = "fixed-width" /\ pf.opts.maintainAspectRatio) =>
    /\ pf.targetWidth = pf.opts.resizeValue
    /\ pf.targetHeight = RoundDiv(pf.opts.resizeValue * pf.img.H, pf.img.W)

\* C18: under fixed-width with resizeValue v and the aspect ratio not kept,
\* the resolved width is v and the resolved height is the natural height.
C18_FixedWidthFree ==
  (Sized /\ pf.opts.resizeMode = "fixed-width" /\ ~pf.opts.maintainAspectRatio) =>
    /\ pf.targetWidth = pf.opts.resizeValue
    /\ pf.targetHeight = pf.img.H

C18_Witness ==
  /\ pf.stage = "returned"
  /\ pf.ctrl.status = "completed"
  /\ pf.opts.resizeMode = "fixed-width" /\ ~pf.opts.maintainAspectRatio
  /\ pf.opts.resizeValue = 450
  /\ pf.img.W = 12 /\ pf.img.H = 13
  /\ pf.ctrl.processedWidth = 450 /\ pf.ctrl.processedHeight = 13

\* C19: under fixed-height with resizeValue v the resolved height is v, and
\* the resolved width is round(v*W/H) when the aspect ratio is kept and the
\* natural width when it is not.
C19_FixedHeightRule ==
  (Sized /\ pf.opts.resizeMode = "fixed-height") =>
    /\ pf.targetHeight = pf.opts.resizeValue
    /\ pf.targetWidth =
         IF pf.opts.maintainAspectRatio
         THEN RoundDiv(pf.opts.resizeValue * pf.img.W, pf.img.H)
         ELSE pf.img.W

\* C20: under original the resolved size is the natural size, whatever
\* resizeValue and maintainAspectRatio are.
C20_OriginalIdentity ==
  (Sized /\ pf.opts.resizeMode = "original") =>
    /\ pf.targetWidth = pf.img.W
    /\ pf.targetHeight = pf.img.H

C20_Witness ==
  /\ pf.stage = "returned"
  /\ pf.ctrl.status = "completed"
  /\ pf.opts.resizeMode = "original"
  /\ pf.opts.resizeValue = 35 /\ ~pf.opts.maintainAspectRatio
  /\ pf.img.W = 90 /\ pf.img.H = 45
  /\ pf.ctrl.processedWidth = 90 /\ pf.ctrl.processedHeight = 45

\* --------------------------------------------- claims about the resources
\* The object URLs an item holds.
HeldBy(f) ==
  {f.previewUrl} \cup (IF f.processedUrl # NoUrl THEN {f.processedUrl} ELSE {})

\* The object URLs made so far that no item holds and that were not revoked.
Leaked ==
  { u \in 1..nextUrl :
      /\ u \notin revoked
      /\ \A i \in 1..Len(files) : u \notin HeldBy(files[i]) }

C22_TeardownReleases ==
  pc = "unmounted" =>
    \A i \in 1..Len(files) : HeldBy(files[i]) \subseteq revoked

\* ------------------------------------------------- claims about identity
\* C23: no two items of the collection share an id, and the id of a removed
\* item is never the id of an item of the collection again.
C23_IdsNeverReused ==
  /\ \A i, j \in 1..Len(files) : i # j => files[i].id # files[j].id
  /\ Ids(files) \cap removed = {}

\* The facts of an item fixed at ingestion.
Facts(f) ==
  << f.id, f.file, f.previewUrl, f.originalSize, f.originalWidth,
     f.originalHeight >>

\* C24: an item that stays in the collection keeps its id, file, preview
\* handle, original size and original dimensions across every step, status
\* updates and merges included, and the preview handle of an item of the
\* collection is never released: an item in error can be retried.
C24_ImmutableFacts ==
  /\ [](\A i \in 1..Len(files) : files[i].previewUrl \notin revoked)
  /\ [][\A id \in Ids(files) \cap Ids(files') :
          Facts(ItemOf(files', id)) = Facts(ItemOf(files, id))]_vars

C24_Witness ==
  /\ runs = MaxRuns
  /\ ~isProcessing
  /\ \E i, j \in 1..Len(files) :
       /\ files[i].status = "error"
       /\ files[i].file.decodable
       /\ files[i].processedUrl \in revoked
       /\ files[i].previewUrl \notin revoked
       /\ files[j].status = "completed"
       /\ Facts(files[j]) = Facts(NewItem(files[j].id, files[j].file,
                                           files[j].previewUrl))

\* ------------------------------------------------- claims about the run
\* The candidate handled at position j succeeded and is still in the
\* collection.
MergedOk(j) ==
  outcomes[j] = "ok" /\ itemsToProcess[j].id \in Ids(files)

\* C25: while a run lasts the options do not change and are the ones the
\* run started with, and every item the run has completed was sized and
\* encoded with those options.
C25_OptionsFixedPerRun ==
  /\ [](isProcessing =>
          /\ runOptions = options
          /\ \A j \in 1..Len(outcomes) :
               MergedOk(j) =>
                 LET f == ItemOf(files, itemsToProcess[j].id)
                     d == ResolveDimensions(f.file.W, f.file.H, runOptions)
                 IN /\ f.processedWidth = d.w
                    /\ f.processedHeight = d.h
                    /\ f.processedFormat = runOptions.format)
  /\ [][(isProcessing /\ isProcessing') =>
          (options' = options /\ runOptions' = runOptions)]_vars

C25_Witness ==
  /\ isProcessing
  /\ LoopOver
  /\ runs = MaxRuns
  /\ runOptions.resizeMode = "fixed-width"
  /\ runOptions # DEFAULT_OPTIONS
  /\ Len(outcomes) >= 2
  /\ \A j \in 1..Len(outcomes) :
       /\ MergedOk(j)
       /\ ItemOf(files, itemsToProcess[j].id).processedWidth =
            runOptions.resizeValue

\* ------------------------------------------------ claims about the settings
\* C26: whenever the resize mode is percentage, resizeValue is an integer
\* percentage in (0,100].
C26_PercentageRange ==
  options.resizeMode = "percentage" => options.resizeValue \in 1..100

\* C27: no item of the collection references a processed payload that was
\* released, and no payload is released twice.
C27_NoStalePayload ==
  /\ \A i \in 1..Len(files) :
       files[i].processedUrl # NoUrl => files[i].processedUrl \notin revoked
  /\ rerevoked = {}

\* C28: every run ends: isProcessing becomes false again, and whenever it is
\* false no item is processing and every candidate of the last run is
\* completed, error, or removed, whatever was removed or ingested meanwhile.
C28_RunTerminates ==
  /\ isProcessing ~> ~isProcessing
  /\ [](~isProcessing =>
          /\ \A i \in 1..Len(files) : files[i].status # "processing"
          /\ \A j \in 1..Len(itemsToProcess) :
               \/ itemsToProcess[j].id \in removed
               \/ /\ itemsToProcess[j].id \in Ids(files)
                  /\ ItemOf(files, itemsToProcess[j].id).status \in
                       {"completed", "error"})

C28_Witness ==
  /\ runs = MaxRuns
  /\ ~isProcessing
  /\ Len(itemsToProcess) = 2
  /\ itemsToProcess[1].id \in removed
  /\ itemsToProcess[2].id \in Ids(files)
  /\ Len(files) = 2
  /\ files[2].id \notin Ids(runStart)
  /\ files[2].status = "idle"

\* A step that empties a collection of two items or more: only
\* handleClearAll does that.
ClearStep == Len(files) >= 2 /\ files' = << >>

\* A step that starts a run.
RunStartStep == runs' # runs

\* C29: while a run is in flight no other run starts and the collection is
\* not cleared; an item can still be removed and a file ingested.
C29_NoRunOrClearDuringRun ==
  /\ [][isProcessing => (~RunStartStep /\ ~ClearStep)]_vars
  /\ [][RunStartStep => (pc = "idle" /\ isProcessing' /\ pc' = "loop")]_vars
  /\ [](isProcessing <=> pc # "idle")

C29_Witness ==
  /\ isProcessing
  /\ pc = "await"
  /\ runs = MaxRuns
  /\ Len(runStart) = 2
  /\ Len(files) = 2
  /\ runStart[1].id \in removed
  /\ files[2].id \notin Ids(runStart)
  /\ item.id = runStart[2].id

\* ------------------------------------------- claims about failure messages
\* C30: a failure record has a non-empty message, whichever step failed and
\* whatever was thrown, a value with an empty or missing message included;
\* so has the record the controller merges.
C30_ErrorMessageNonEmpty ==
  /\ (Settled /\ pf.res.status = "error") =>
       pf.res.error \notin {Undefined, ""}
  /\ (pf.stage = "returned" /\ pf.ctrl.status = "error") =>
       pf.ctrl.error \notin {Undefined, ""}
  /\ (pf.stage = "returned" /\ pf.thrown # Undefined) =>
       pf.ctrl.status = "error"

C30_Witness ==
  /\ pf.stage = "returned"
  /\ pf.thrown = ""
  /\ pf.trace = << "load", "resolve", "canvas" >>
  /\ pf.ctrl.status = "error"
  /\ pf.ctrl.error = "Processing failed"

====
